---- MODULE Spec2Model ----
(***************************************************************************)
(* Adapt-BPE: the filter / apply / refine pipeline of train.py and the     *)
(* companion merge-usage counter apply_merges_with_true_counts.py.         *)
(*                                                                         *)
(* A Python string is a sequence of one-character strings, a token is a    *)
(* string, a token list is a sequence of tokens, and a Counter / dict is   *)
(* a sequence of [k |-> key, c |-> count] entries in insertion order       *)
(* (Python dicts iterate in insertion order, and sorted() is stable, so    *)
(* the order is observable in the refinement queues).                      *)
(***************************************************************************)
EXTENDS Integers, Sequences, FiniteSets, TLC

\* ------------------------------------------------------------------ bounds
\* Spec: short corpora, longer merge tables
MaxTextLen == 3
MaxMerges == 4
\* largest --num_merges
MaxN == 3
\* SpecCorpus: longer corpora, shorter merge tables
LongTextLen == 6
ShortMerges == 3
CorpusN == 2
\* SpecOps: most tokens in the starting table
MaxTokens == 4

\* --------------------------------------------------------------- constants
SEP == "u0001"
EOW == <<"<", "/", "w", ">">>

A1 == <<"a">>
B1 == <<"b">>

\* ------------------------------------------------------------ serialization
RECURSIVE serialize_word(_)
serialize_word(token_list) ==
    IF token_list = <<>> THEN <<>>
    ELSE IF Len(token_list) = 1 THEN token_list[1]
    ELSE token_list[1] \o <<SEP>> \o serialize_word(Tail(token_list))

\* str.split(sep): the fields between the separators, always at least one
RECURSIVE str_split(_, _)
str_split(s, sep) ==
    IF \A i \in 1..Len(s) : s[i] # sep THEN <<s>>
    ELSE LET i == CHOOSE i \in 1..Len(s) :
                      s[i] = sep /\ \A j \in 1..(i - 1) : s[j] # sep
         IN  <<SubSeq(s, 1, i - 1)>> \o str_split(SubSeq(s, i + 1, Len(s)), sep)

deserialize_word(word_key) ==
    IF word_key = <<>> THEN <<>> ELSE str_split(word_key, SEP)

\* ------------------------------------------------------------------ Counter
\* counter[key] += n
CounterAdd(counter, key, n) ==
    IF \E i \in 1..Len(counter) : counter[i].k = key
    THEN [i \in 1..Len(counter) |->
            IF counter[i].k = key THEN [k |-> key, c |-> counter[i].c + n]
            ELSE counter[i]]
    ELSE Append(counter, [k |-> key, c |-> n])

\* counter[key], 0 for a missing key
CounterGet(counter, key) ==
    IF \E i \in 1..Len(counter) : counter[i].k = key
    THEN counter[CHOOSE i \in 1..Len(counter) : counter[i].k = key].c
    ELSE 0

CounterKeys(counter) == {counter[i].k : i \in 1..Len(counter)}

\* Counter.__eq__: the same count for every key, a missing key counting 0
CounterEq(x, y) ==
    \A key \in CounterKeys(x) \cup CounterKeys(y) :
        CounterGet(x, key) = CounterGet(y, key)

RECURSIVE SumSeq(_)
SumSeq(s) == IF s = <<>> THEN 0 ELSE s[1] + SumSeq(Tail(s))

\* ---------------------------------------------------------------- tokenizer
IsSpace(ch) == ch \in {" ", "\n", "\t"}

\* str.split(): the maximal runs of non-whitespace characters
RECURSIVE split_ws(_, _, _)
split_ws(text_, i, cur) ==
    IF i > Len(text_) THEN (IF cur = <<>> THEN <<>> ELSE <<cur>>)
    ELSE IF IsSpace(text_[i])
         THEN (IF cur = <<>> THEN <<>> ELSE <<cur>>) \o split_ws(text_, i + 1, <<>>)
         ELSE split_ws(text_, i + 1, Append(cur, text_[i]))

tokenize_characters(text_) ==
    LET words == split_ws(text_, 1, <<>>)
    IN  [w \in 1..Len(words) |->
            [j \in 1..Len(words[w]) |-> <<words[w][j]>>] \o <<EOW>>]

RECURSIVE counter_of(_, _)
counter_of(keys, acc) ==
    IF keys = <<>> THEN acc
    ELSE counter_of(Tail(keys), CounterAdd(acc, keys[1], 1))

get_initial_word_counts(tokenized_words) ==
    counter_of([w \in 1..Len(tokenized_words) |-> serialize_word(tokenized_words[w])],
               <<>>)

\* ------------------------------------------------------------- filter_merges
IsAtomic(token) == Len(token) = 1 \/ token = EOW

AtomicOperands(merges) ==
    {t \in {merges[i][1] : i \in 1..Len(merges)} \cup {merges[i][2] : i \in 1..Len(merges)} :
        IsAtomic(t)}

Reasons(a, b, current_tokens) ==
    (IF a \notin current_tokens THEN <<a>> ELSE <<>>)
    \o (IF b \notin current_tokens THEN <<b>> ELSE <<>>)

\* mutant: one known operand is enough
is_valid_either(a, b, current_tokens) == a \in current_tokens \/ b \in current_tokens

\* if a in current_tokens and b in current_tokens
is_valid(a, b, current_tokens) == a \in current_tokens /\ b \in current_tokens

RECURSIVE filter_loop(_, _, _, _, _, _)
filter_loop(merges, i, num_valid_merges, current_tokens, valid_merges, skipped) ==
    IF i > Len(merges) THEN [valid |-> valid_merges, skipped |-> skipped]
    ELSE LET a == merges[i][1]
             b == merges[i][2]
         IN  IF is_valid(a, b, current_tokens)
             THEN LET v == Append(valid_merges, <<a, b>>)
                  IN  IF Len(v) = num_valid_merges
                      THEN [valid |-> v, skipped |-> skipped]
                      ELSE filter_loop(merges, i + 1, num_valid_merges,
                                       current_tokens \cup {a \o b}, v, skipped)
             ELSE filter_loop(merges, i + 1, num_valid_merges, current_tokens,
                              valid_merges,
                              Append(skipped, <<a, b, Reasons(a, b, current_tokens)>>))

filter_merges(merges, num_valid_merges) ==
    filter_loop(merges, 1, num_valid_merges, AtomicOperands(merges), <<>>, <<>>)

\* ------------------------------------------------------------------- bigrams
RECURSIVE bigrams_word(_, _, _, _)
bigrams_word(tokens, i, count, freqs) ==
    IF i >= Len(tokens) THEN freqs
    ELSE bigrams_word(tokens, i + 1, count,
                      CounterAdd(freqs, <<tokens[i], tokens[i + 1]>>, count))

RECURSIVE bigrams_loop(_, _, _)
bigrams_loop(word_counts_, k, freqs) ==
    IF k > Len(word_counts_) THEN freqs
    ELSE bigrams_loop(word_counts_, k + 1,
                      bigrams_word(deserialize_word(word_counts_[k].k), 1,
                                   word_counts_[k].c, freqs))

get_bigram_frequencies_from_counts(word_counts_) == bigrams_loop(word_counts_, 1, <<>>)

\* ------------------------------------------------------------- merge applier
\* the left-to-right scan of one word: the rewritten tokens and the number of
\* replacements made in it
RECURSIVE merge_scan(_, _, _, _)
merge_scan(tokens, i, a, b) ==
    IF i > Len(tokens) THEN [out |-> <<>>, n |-> 0]
    ELSE IF i < Len(tokens) /\ tokens[i] = a /\ tokens[i + 1] = b
         THEN LET r == merge_scan(tokens, i + 2, a, b)
              IN  [out |-> <<a \o b>> \o r.out, n |-> r.n + 1]
         ELSE LET r == merge_scan(tokens, i + 1, a, b)
              IN  [out |-> <<tokens[i]>> \o r.out, n |-> r.n]

\* mutant: new_word_counts[new_key] = count
rekey_overwrite(new_word_counts, new_key, count) ==
    IF \E i \in 1..Len(new_word_counts) : new_word_counts[i].k = new_key
    THEN [i \in 1..Len(new_word_counts) |->
            IF new_word_counts[i].k = new_key THEN [k |-> new_key, c |-> count]
            ELSE new_word_counts[i]]
    ELSE Append(new_word_counts, [k |-> new_key, c |-> count])

\* new_word_counts[new_key] += count
rekey_add(new_word_counts, new_key, count) == CounterAdd(new_word_counts, new_key, count)

\* mutant: replacements_this_round += 1
count_unweighted(replacements, n, count) == replacements + n

\* replacements_this_round += count, once per replacement in the word
count_replacements(replacements, n, count) == replacements + n * count

\* one pass of one merge over every word type
RECURSIVE merge_pass(_, _, _, _, _, _)
merge_pass(word_counts_, k, a, b, new_word_counts, replacements) ==
    IF k > Len(word_counts_) THEN [wc |-> new_word_counts, repl |-> replacements]
    ELSE LET r == merge_scan(deserialize_word(word_counts_[k].k), 1, a, b)
         IN  merge_pass(word_counts_, k + 1, a, b,
                        rekey_add(new_word_counts, serialize_word(r.out), word_counts_[k].c),
                        count_replacements(replacements, r.n, word_counts_[k].c))

\* total tokens excluding one </w> per word, weighted by counts
initial_corpus_size(word_counts_) ==
    SumSeq([k \in 1..Len(word_counts_) |->
              (Len(deserialize_word(word_counts_[k].k)) - 1) * word_counts_[k].c])

\* one iteration of the loop over merges: st = [wc, mf, log, size]
apply_iteration(st, merge) ==
    LET p == merge_pass(st.wc, 1, merge[1], merge[2], <<>>, 0)
        corpus_size_after == st.size - p.repl
    IN  [wc   |-> p.wc,
         mf   |-> Append(st.mf, <<merge, p.repl>>),
         log  |-> Append(st.log, <<merge[1], merge[2], p.repl, corpus_size_after>>),
         size |-> corpus_size_after]

RECURSIVE apply_loop(_, _, _)
apply_loop(st, merges, i) ==
    IF i > Len(merges) THEN st
    ELSE apply_loop(apply_iteration(st, merges[i]), merges, i + 1)

apply_merges_word_counts(word_counts_, merges) ==
    apply_loop([wc |-> word_counts_, mf |-> <<>>, log |-> <<>>,
                size |-> initial_corpus_size(word_counts_)], merges, 1)

\* --------------------------------------------------------------- merge undoer
\* mutant: the operands appended in the wrong order
RECURSIVE split_swapped(_, _, _)
split_swapped(tokens, a, b) ==
    IF tokens = <<>> THEN <<>>
    ELSE (IF tokens[1] = a \o b THEN <<b, a>> ELSE <<tokens[1]>>)
         \o split_swapped(Tail(tokens), a, b)

RECURSIVE split_merged(_, _, _)
split_merged(tokens, a, b) ==
    IF tokens = <<>> THEN <<>>
    ELSE (IF tokens[1] = a \o b THEN <<a, b>> ELSE <<tokens[1]>>)
         \o split_merged(Tail(tokens), a, b)

RECURSIVE undo_pass(_, _, _, _)
undo_pass(word_counts_, k, merge, new_counts) ==
    IF k > Len(word_counts_) THEN new_counts
    ELSE LET tokens == deserialize_word(word_counts_[k].k)
             merged == merge[1] \o merge[2]
         IN  IF \A i \in 1..Len(tokens) : tokens[i] # merged
             THEN undo_pass(word_counts_, k + 1, merge,
                            CounterAdd(new_counts, word_counts_[k].k, word_counts_[k].c))
             ELSE undo_pass(word_counts_, k + 1, merge,
                            CounterAdd(new_counts,
                                       serialize_word(split_merged(tokens, merge[1], merge[2])),
                                       word_counts_[k].c))

undo_merge_word_counts(word_counts_, merge) == undo_pass(word_counts_, 1, merge, <<>>)

\* -------------------------------------------------------------------- sorted
\* sorted(xs, key=lambda x: x[1]): stable, ascending
RECURSIVE insert_asc(_, _)
insert_asc(s, x) ==
    IF s = <<>> THEN <<x>>
    ELSE IF s[1][2] <= x[2] THEN <<s[1]>> \o insert_asc(Tail(s), x)
    ELSE <<x>> \o s

RECURSIVE sorted_asc(_, _)
sorted_asc(xs, acc) ==
    IF xs = <<>> THEN acc ELSE sorted_asc(Tail(xs), insert_asc(acc, xs[1]))

\* sorted(xs, key=lambda x: x[1], reverse=True): stable, descending
RECURSIVE insert_desc(_, _)
insert_desc(s, x) ==
    IF s = <<>> THEN <<x>>
    ELSE IF s[1][2] >= x[2] THEN <<s[1]>> \o insert_desc(Tail(s), x)
    ELSE <<x>> \o s

RECURSIVE sorted_desc(_, _)
sorted_desc(xs, acc) ==
    IF xs = <<>> THEN acc ELSE sorted_desc(Tail(xs), insert_desc(acc, xs[1]))

SeqSet(s) == {s[i] : i \in 1..Len(s)}

\* list.remove(x): drops the first occurrence; ValueError (passed over) when absent
RECURSIVE list_remove(_, _)
list_remove(s, x) ==
    IF s = <<>> THEN <<>>
    ELSE IF s[1] = x THEN Tail(s)
    ELSE <<s[1]>> \o list_remove(Tail(s), x)

\* --------------------------------------------------------- refinement engine
\* the setup before the loop: Low, High, the copy of the applied list
low_queue(merge_frequencies_) == sorted_asc(merge_frequencies_, <<>>)

RECURSIVE filter_bigrams(_, _)
filter_bigrams(freqs, remaining_merge_set) ==
    IF freqs = <<>> THEN <<>>
    ELSE (IF freqs[1].k \in remaining_merge_set
          THEN <<<<freqs[1].k, freqs[1].c>>>> ELSE <<>>)
         \o filter_bigrams(Tail(freqs), remaining_merge_set)

high_queue(word_counts_, remaining_merges_) ==
    sorted_desc(filter_bigrams(get_bigram_frequencies_from_counts(word_counts_),
                               SeqSet(remaining_merges_)), <<>>)

refine_setup(tokenized_word_counts, applied_merges_, remaining_merges_, merge_frequencies_) ==
    [wc    |-> tokenized_word_counts,
     low   |-> low_queue(merge_frequencies_),
     high  |-> high_queue(tokenized_word_counts, remaining_merges_),
     final |-> applied_merges_,
     log   |-> <<>>,
     num   |-> 1,
     stop  |-> FALSE]

\* mutant: only the entries below low_freq are discarded
RECURSIVE discard_high_below(_, _)
discard_high_below(remaining_sorted_, low_freq) ==
    IF remaining_sorted_ # <<>> /\ remaining_sorted_[1][2] < low_freq
    THEN discard_high_below(Tail(remaining_sorted_), low_freq)
    ELSE remaining_sorted_

\* while remaining_sorted and remaining_sorted[0][1] <= low_freq: pop(0)
RECURSIVE discard_high(_, _)
discard_high(remaining_sorted_, low_freq) ==
    IF remaining_sorted_ # <<>> /\ remaining_sorted_[1][2] <= low_freq
    THEN discard_high(Tail(remaining_sorted_), low_freq)
    ELSE remaining_sorted_

\* mutant: the trial made on the current table, the undo left out
swap_trial_no_undo(word_counts_, low_merge, high_merge) ==
    merge_pass(word_counts_, 1, high_merge[1], high_merge[2], <<>>, 0)

\* the candidate: undo low_merge, then one pass of high_merge counting replacements
swap_trial(word_counts_, low_merge, high_merge) ==
    merge_pass(undo_merge_word_counts(word_counts_, low_merge), 1,
               high_merge[1], high_merge[2], <<>>, 0)

\* mutant: high_merge put where low_merge was
RECURSIVE swap_list_in_place(_, _, _)
swap_list_in_place(final_applied_merges_, low_merge, high_merge) ==
    IF final_applied_merges_ = <<>> THEN <<high_merge>>
    ELSE IF final_applied_merges_[1] = low_merge
         THEN <<high_merge>> \o Tail(final_applied_merges_)
    ELSE <<final_applied_merges_[1]>>
         \o swap_list_in_place(Tail(final_applied_merges_), low_merge, high_merge)

\* the final list after an accepted swap
swap_list(final_applied_merges_, low_merge, high_merge) ==
    Append(list_remove(final_applied_merges_, low_merge), high_merge)

log_entry(number, low, high, replacements) ==
    [merge_type |-> "Replacement", number |-> number,
     low_merge |-> low[1], low_freq |-> low[2],
     high_merge |-> high[1], high_freq |-> high[2],
     replacements |-> replacements]

\* mutant: the iteration is skipped and the loop goes on
continue_on_empty_high(st) ==
    [st EXCEPT !.low = Tail(st.low), !.high = <<>>]

\* "if not remaining_sorted: break", Low already popped
break_on_empty_high(st) ==
    [st EXCEPT !.low = Tail(st.low), !.high = <<>>, !.stop = TRUE]

\* one iteration of "while applied_sorted": st.low is not empty
refine_iteration(st) ==
    LET low  == Head(st.low)
        high == discard_high(st.high, low[2])
    IN  IF high = <<>>
        THEN break_on_empty_high(st)
        ELSE LET p == swap_trial(st.wc, low[1], high[1][1])
             IN  IF p.repl > 0
                 THEN [st EXCEPT !.low = Tail(st.low), !.high = Tail(high),
                                 !.wc = p.wc,
                                 !.final = swap_list(st.final, low[1], high[1][1]),
                                 !.log = Append(st.log, log_entry(st.num, low, high[1], p.repl)),
                                 !.num = st.num + 1]
                 ELSE [st EXCEPT !.low = Tail(st.low), !.high = Tail(high)]

RECURSIVE refine_loop(_)
refine_loop(st) ==
    IF st.low = <<>> \/ st.stop THEN st ELSE refine_loop(refine_iteration(st))

refine_merges_word_counts(tokenized_word_counts, applied, remaining, frequencies) ==
    refine_loop(refine_setup(tokenized_word_counts, applied, remaining, frequencies))

\* ------------------------------------------------------------------ flattener
RECURSIVE repeat_tokens(_, _)
repeat_tokens(tokens, count) ==
    IF count <= 0 THEN <<>> ELSE tokens \o repeat_tokens(tokens, count - 1)

RECURSIVE flatten_tokens(_, _)
flatten_tokens(word_counts_, k) ==
    IF k > Len(word_counts_) THEN <<>>
    ELSE LET tokens == deserialize_word(word_counts_[k].k)
             tokens_no_w == SelectSeq(tokens, LAMBDA t : t # EOW)
         IN  repeat_tokens(tokens_no_w, word_counts_[k].c)
             \o flatten_tokens(word_counts_, k + 1)

RECURSIVE str_join(_, _)
str_join(sep, parts) ==
    IF parts = <<>> THEN <<>>
    ELSE IF Len(parts) = 1 THEN parts[1]
    ELSE parts[1] \o sep \o str_join(sep, Tail(parts))

flatten_from_counts(word_counts_) == str_join(<<" ">>, flatten_tokens(word_counts_, 1))

\* ------------------------------------------------------------ measures
Weight(word_counts_) == SumSeq([k \in 1..Len(word_counts_) |-> word_counts_[k].c])

TokenCount(word_counts_) ==
    SumSeq([k \in 1..Len(word_counts_) |->
              Len(deserialize_word(word_counts_[k].k)) * word_counts_[k].c])

\* ------------------------------------------- apply_merges_with_true_counts.py
\* str.splitlines() over "\n": the lines, without a last empty one
splitlines(text_) ==
    LET parts == str_split(text_, "\n")
    IN  IF parts[Len(parts)] = <<>> THEN SubSeq(parts, 1, Len(parts) - 1) ELSE parts

char_count_of(text_) ==
    LET lines == splitlines(text_)
    IN  SumSeq([i \in 1..Len(lines) |-> Len(lines[i])])

count_final_tokens(word_counts_) ==
    SumSeq([k \in 1..Len(word_counts_) |->
              Len(SelectSeq(deserialize_word(word_counts_[k].k), LAMBDA t : t # EOW))
              * word_counts_[k].c])

\* f.write(f"{a} {b}\n") per merge: the lines of the final merge file
merge_file_lines(merges) ==
    [i \in 1..Len(merges) |-> merges[i][1] \o <<" ">> \o merges[i][2]]

\* a, b = line.strip().split()
parse_merge_line(line) == split_ws(line, 1, <<>>)

\* main of the usage counter, on the corpus and a merge file
usage_main(text_, merge_lines) ==
    LET fields == [i \in 1..Len(merge_lines) |-> parse_merge_line(merge_lines[i])]
    IN  IF \E i \in 1..Len(fields) : Len(fields[i]) # 2
        THEN [status |-> "ValueError", char_count |-> 0, final_token_count |-> 0]
        ELSE LET merges == [i \in 1..Len(fields) |-> <<fields[i][1], fields[i][2]>>]
                 char_count == char_count_of(text_)
                 table == get_initial_word_counts(tokenize_characters(text_))
                 final_counts == apply_merges_word_counts(table, merges).wc
                 final_token_count == count_final_tokens(final_counts)
             IN  [status |-> IF char_count = 0 THEN "ZeroDivisionError" ELSE "ok",
                  char_count |-> char_count,
                  final_token_count |-> final_token_count]

\* ============================================================== state machine
VARIABLES
    pc,                  \* position in main, or "ops" in the table-operation specification
    text,                \* the corpus text read from --test_file
    all_merges,          \* the pretrained merge list
    num_merges,          \* --num_merges
    total_chars,
    word_counts,         \* the WordCountTable
    applied_merges,
    skipped_merges,
    merge_i,             \* the merge the apply loop is at
    merge_frequencies,
    compression_log,
    corpus_size,
    remaining_merges,
    applied_sorted,      \* Low
    remaining_sorted,    \* High
    final_applied_merges,
    log_data,            \* the refinement log
    merge_number,
    output_file,
    final_merge_file,
    stats,               \* what the usage counter ends with
    start_counts,        \* table-operation specification: the starting table
    last_ops             \* table-operation specification: the last calls

vars == <<pc, text, all_merges, num_merges, total_chars, word_counts, applied_merges,
          skipped_merges, merge_i, merge_frequencies, compression_log, corpus_size,
          remaining_merges, applied_sorted, remaining_sorted, final_applied_merges,
          log_data, merge_number, output_file, final_merge_file, stats,
          start_counts, last_ops>>

inputVars == <<text, all_merges, num_merges>>
loadVars == <<total_chars, applied_merges, skipped_merges>>
applyVars == <<merge_i, merge_frequencies, compression_log, corpus_size>>
refineVars == <<remaining_merges, applied_sorted, remaining_sorted,
                final_applied_merges, log_data, merge_number>>
outVars == <<output_file, final_merge_file, stats>>
opsVars == <<start_counts, last_ops>>

NotWritten == [written |-> FALSE, content |-> <<>>]
NoStats == [status |-> "none", char_count |-> 0, final_token_count |-> 0]

\* ------------------------------------------------------------------ inputs
TextChars == {"a", "b", " "}
TextsUpTo(n) == UNION {[1..k -> TextChars] : k \in 0..n}

AB == A1 \o B1
MergePool == {<<A1, B1>>, <<B1, A1>>, <<A1, EOW>>, <<B1, EOW>>, <<AB, EOW>>}
CorpusPool == {<<A1, B1>>, <<AB, EOW>>, <<B1, EOW>>}
\* a pretrained merge table lists each pair once
MergeListsUpTo(n) ==
    {ms \in UNION {[1..k -> MergePool] : k \in 0..n} :
        \A i, j \in 1..Len(ms) : i # j => ms[i] # ms[j]}

InitCommon ==
    /\ total_chars = 0
    /\ applied_merges = <<>>
    /\ skipped_merges = <<>>
    /\ merge_i = 1
    /\ merge_frequencies = <<>>
    /\ compression_log = <<>>
    /\ corpus_size = 0
    /\ remaining_merges = <<>>
    /\ applied_sorted = <<>>
    /\ remaining_sorted = <<>>
    /\ final_applied_merges = <<>>
    /\ log_data = <<>>
    /\ merge_number = 1
    /\ output_file = NotWritten
    /\ final_merge_file = NotWritten
    /\ stats = NoStats

InitMain ==
    /\ pc = "read"
    /\ word_counts = <<>>
    /\ start_counts = <<>>
    /\ last_ops = <<>>
    /\ InitCommon

Init ==
    /\ text \in TextsUpTo(MaxTextLen)
    /\ all_merges \in MergeListsUpTo(MaxMerges)
    /\ num_merges \in 1..MaxN
    /\ InitMain

InitCorpus ==
    /\ text \in TextsUpTo(LongTextLen)
    /\ all_merges \in {ms \in MergeListsUpTo(ShortMerges) :
                          \A i \in 1..Len(ms) : ms[i] \in CorpusPool}
    /\ num_merges \in 1..CorpusN
    /\ InitMain

\* ------------------------------------------------------------------- main
\* read the corpus, tokenize it, build the table
Tokenize ==
    /\ pc = "read"
    /\ LET tokenized_words == tokenize_characters(text)
       IN  /\ total_chars' = SumSeq([w \in 1..Len(tokenized_words) |-> Len(tokenized_words[w])])
           /\ word_counts' = get_initial_word_counts(tokenized_words)
    /\ pc' = "filter"
    /\ UNCHANGED <<inputVars, applied_merges, skipped_merges, applyVars, refineVars,
                   outVars, opsVars>>

\* load and filter the merges, enter apply_merges_word_counts
Filter ==
    /\ pc = "filter"
    /\ LET f == filter_merges(all_merges, num_merges)
       IN  /\ applied_merges' = f.valid
           /\ skipped_merges' = f.skipped
    /\ merge_i' = 1
    /\ merge_frequencies' = <<>>
    /\ compression_log' = <<>>
    /\ corpus_size' = initial_corpus_size(word_counts)
    /\ pc' = "apply"
    /\ UNCHANGED <<inputVars, total_chars, word_counts, refineVars, outVars, opsVars>>

\* one iteration of the loop over the applied merges
ApplyStep ==
    /\ pc = "apply"
    /\ merge_i <= Len(applied_merges)
    /\ LET st == apply_iteration([wc |-> word_counts, mf |-> merge_frequencies,
                                  log |-> compression_log, size |-> corpus_size],
                                 applied_merges[merge_i])
       IN  /\ word_counts' = st.wc
           /\ merge_frequencies' = st.mf
           /\ compression_log' = st.log
           /\ corpus_size' = st.size
    /\ merge_i' = merge_i + 1
    /\ UNCHANGED <<pc, inputVars, loadVars, refineVars, outVars, opsVars>>

\* [m for m in all_merges if m not in applied_merges]
remaining_of(all_merges_, applied_merges_) ==
    SelectSeq(all_merges_, LAMBDA m : m \notin SeqSet(applied_merges_))

RefState ==
    [wc |-> word_counts, low |-> applied_sorted, high |-> remaining_sorted,
     final |-> final_applied_merges, log |-> log_data, num |-> merge_number,
     stop |-> FALSE]

LoadRefState(st) ==
    /\ word_counts' = st.wc
    /\ applied_sorted' = st.low
    /\ remaining_sorted' = st.high
    /\ final_applied_merges' = st.final
    /\ log_data' = st.log
    /\ merge_number' = st.num
    /\ pc' = IF st.stop THEN "refined" ELSE "refine"

\* apply returns; the remaining merges; the setup of refine_merges_word_counts
RefineSetup ==
    /\ pc = "apply"
    /\ merge_i > Len(applied_merges)
    /\ remaining_merges' = remaining_of(all_merges, applied_merges)
    /\ LoadRefState(refine_setup(word_counts, applied_merges, remaining_merges',
                                 merge_frequencies))
    /\ UNCHANGED <<inputVars, loadVars, applyVars, outVars, opsVars>>

InRefineLoop == pc = "refine" /\ applied_sorted # <<>>

HighAfterDiscard == discard_high(remaining_sorted, Head(applied_sorted)[2])

\* an iteration that finds High empty after the discard: the break
RefineBreak ==
    /\ InRefineLoop
    /\ HighAfterDiscard = <<>>
    /\ LoadRefState(refine_iteration(RefState))
    /\ UNCHANGED <<inputVars, loadVars, applyVars, remaining_merges, outVars, opsVars>>

\* an iteration that pops High and tries the swap: accepted when the trial makes
\* a replacement, otherwise without effect
RefineTrial ==
    /\ InRefineLoop
    /\ HighAfterDiscard # <<>>
    /\ LoadRefState(refine_iteration(RefState))
    /\ UNCHANGED <<inputVars, loadVars, applyVars, remaining_merges, outVars, opsVars>>

\* "while applied_sorted" is false: the loop ends
RefineExhausted ==
    /\ pc = "refine"
    /\ applied_sorted = <<>>
    /\ pc' = "refined"
    /\ UNCHANGED <<inputVars, loadVars, word_counts, applyVars, refineVars, outVars, opsVars>>

\* flatten and write the output text and the final merge file
WriteOutputs ==
    /\ pc = "refined"
    /\ output_file' = [written |-> TRUE, content |-> flatten_from_counts(word_counts)]
    /\ final_merge_file' = [written |-> TRUE,
                            content |-> merge_file_lines(final_applied_merges)]
    /\ pc' = "done"
    /\ UNCHANGED <<inputVars, loadVars, word_counts, applyVars, refineVars, stats, opsVars>>

\* the usage counter run on the same corpus with the final merge file
UsageCounter ==
    /\ pc = "done"
    /\ final_merge_file.written
    /\ stats' = usage_main(text, final_merge_file.content)
    /\ pc' = "evaluated"
    /\ UNCHANGED <<inputVars, loadVars, word_counts, applyVars, refineVars,
                   output_file, final_merge_file, opsVars>>

Next ==
    \/ Tokenize
    \/ Filter
    \/ ApplyStep
    \/ RefineSetup
    \/ RefineBreak
    \/ RefineTrial
    \/ RefineExhausted
    \/ WriteOutputs
    \/ UsageCounter

Spec == Init /\ [][Next]_vars

SpecCorpus == InitCorpus /\ [][Next]_vars

\* ============================================ the table operations on any table
OpTokens == {A1, B1, AB}
OpMerges == {<<A1, B1>>, <<AB, B1>>}
OpFreqs == {0, 1}

\* the words of a token string cut after the positions in cuts
RECURSIVE cut_words(_, _, _, _)
cut_words(tokens, cuts, i, cur) ==
    IF i > Len(tokens) THEN (IF cur = <<>> THEN <<>> ELSE <<cur>>)
    ELSE IF i \in cuts
         THEN <<Append(cur, tokens[i])>> \o cut_words(tokens, cuts, i + 1, <<>>)
         ELSE cut_words(tokens, cuts, i + 1, Append(cur, tokens[i]))

InitOps ==
    /\ pc = "ops"
    /\ text = <<>>
    /\ all_merges = <<>>
    /\ num_merges = 1
    /\ \E n \in 0..MaxTokens :
         \E tokens \in [1..n -> OpTokens] :
           \E cuts \in SUBSET (1..(n - 1)) :
             word_counts = get_initial_word_counts(cut_words(tokens, cuts, 1, <<>>))
    /\ start_counts = word_counts
    /\ last_ops = <<>>
    /\ InitCommon

\* the last call, after the one before it when that was an apply
Remember(call) ==
    last_ops' = IF last_ops # <<>> /\ last_ops[Len(last_ops)].op = "apply"
                THEN <<last_ops[Len(last_ops)], call>>
                ELSE <<call>>

mainVars == <<inputVars, loadVars, applyVars, refineVars, outVars>>

\* apply_merges_word_counts(word_counts, [m])
OpApply(m) ==
    /\ pc = "ops"
    /\ LET r == apply_merges_word_counts(word_counts, <<m>>)
       IN  /\ word_counts' = r.wc
           /\ Remember([op |-> "apply", merge |-> m, freq |-> 0, high |-> m,
                        before |-> word_counts, mf |-> r.mf, log |-> r.log,
                        final |-> <<>>])
    /\ UNCHANGED <<pc, mainVars, start_counts>>

\* undo_merge_word_counts(word_counts, m)
OpUndo(m) ==
    /\ pc = "ops"
    /\ word_counts' = undo_merge_word_counts(word_counts, m)
    /\ Remember([op |-> "undo", merge |-> m, freq |-> 0, high |-> m,
                 before |-> word_counts, mf |-> <<>>, log |-> <<>>, final |-> <<>>])
    /\ UNCHANGED <<pc, mainVars, start_counts>>

\* refine_merges_word_counts(word_counts, [low], [high], [(low, freq)]): one swap trial
OpRefine(low, freq, high) ==
    /\ pc = "ops"
    /\ low # high
    /\ LET r == refine_merges_word_counts(word_counts, <<low>>, <<high>>, <<<<low, freq>>>>)
       IN  /\ word_counts' = r.wc
           /\ Remember([op |-> "refine", merge |-> low, freq |-> freq, high |-> high,
                        before |-> word_counts, mf |-> <<>>, log |-> r.log,
                        final |-> r.final])
    /\ UNCHANGED <<pc, mainVars, start_counts>>

NextOps ==
    \/ \E m \in OpMerges : OpApply(m)
    \/ \E m \in OpMerges : OpUndo(m)
    \/ \E low \in OpMerges, high \in OpMerges, freq \in OpFreqs : OpRefine(low, freq, high)

SpecOps == InitOps /\ [][NextOps]_vars

\* ===================================================================== claims
LastOp == last_ops[Len(last_ops)]

TokensOf(word_counts_) ==
    UNION {SeqSet(deserialize_word(word_counts_[k].k)) : k \in 1..Len(word_counts_)}

RECURSIVE IsSubseq(_, _)
IsSubseq(s, t) ==
    IF s = <<>> THEN TRUE
    ELSE IF t = <<>> THEN FALSE
    ELSE IF s[1] = t[1] THEN IsSubseq(Tail(s), Tail(t))
    ELSE IsSubseq(s, Tail(t))

\* C1: weight conservation. After any sequence of apply steps, undo calls and
\* swap trials from any starting table, the multiplicities of the table sum to
\* what they summed to in the starting table.
C1_WeightConserved ==
    pc = "ops" => Weight(word_counts) = Weight(start_counts)

\* an accepted swap trial has left fewer word types than the starting table had
C1_Witness ==
    /\ pc = "ops"
    /\ last_ops # <<>>
    /\ LastOp.op = "refine"
    /\ LastOp.log # <<>>
    /\ Len(word_counts) < Len(start_counts)
    /\ Weight(start_counts) >= 2

\* C2: undo is a left inverse of apply for an isolated merge. When a table holds
\* no token equal to a+b, applying the merge (a, b) and then undoing it gives the
\* table back: the same keys with the same multiplicities.
C2_UndoInvertsApply ==
    (/\ pc = "ops"
     /\ Len(last_ops) = 2
     /\ last_ops[1].op = "apply"
     /\ last_ops[2].op = "undo"
     /\ last_ops[2].merge = last_ops[1].merge
     /\ (last_ops[1].merge[1] \o last_ops[1].merge[2]) \notin TokensOf(last_ops[1].before))
    => /\ CounterEq(word_counts, last_ops[1].before)
       /\ CounterKeys(word_counts) = CounterKeys(last_ops[1].before)

\* an apply that made replacements in a table of two word types, then undone
C2_Witness ==
    /\ pc = "ops"
    /\ Len(last_ops) = 2
    /\ last_ops[1].op = "apply"
    /\ last_ops[2].op = "undo"
    /\ last_ops[2].merge = last_ops[1].merge
    /\ (last_ops[1].merge[1] \o last_ops[1].merge[2]) \notin TokensOf(last_ops[1].before)
    /\ last_ops[1].mf[1][2] > 0
    /\ Len(last_ops[1].before) >= 2

\* C3: monotonic non-increase. One apply step never increases the total weighted
\* token count: the count after it is the count before it minus the replacement
\* count reported for the merge in merge_frequencies and in the compression log.
C3_ApplyReducesByReplacements ==
    (pc = "ops" /\ last_ops # <<>> /\ LastOp.op = "apply")
    => /\ Len(LastOp.mf) = 1
       /\ Len(LastOp.log) = 1
       /\ LastOp.mf[1][1] = LastOp.merge
       /\ LastOp.log[1][3] = LastOp.mf[1][2]
       /\ LastOp.mf[1][2] >= 0
       /\ TokenCount(word_counts) = TokenCount(LastOp.before) - LastOp.mf[1][2]
       /\ TokenCount(word_counts) <= TokenCount(LastOp.before)

\* an apply step that replaced a pair in a word type of multiplicity two
C3_Witness ==
    /\ pc = "ops"
    /\ last_ops # <<>>
    /\ LastOp.op = "apply"
    /\ LastOp.mf[1][2] >= 2
    /\ \E k \in 1..Len(word_counts) : word_counts[k].c >= 2

AfterFilter == pc \in {"apply", "refine", "refined", "done", "evaluated"}

\* C4: closed vocabulary of filter_merges. Both operands of every accepted merge
\* are atomic (one character, or the end-of-word marker) or the concatenation of
\* the operands of a merge strictly earlier in the accepted list, and the accepted
\* list is an order-preserving subsequence of the pretrained list.
C4_ClosedVocabulary ==
    AfterFilter =>
        /\ \A i \in 1..Len(applied_merges) : \A o \in 1..2 :
              \/ IsAtomic(applied_merges[i][o])
              \/ \E j \in 1..(i - 1) :
                    applied_merges[j][1] \o applied_merges[j][2] = applied_merges[i][o]
        /\ IsSubseq(applied_merges, all_merges)

\* an accepted merge with a merged operand, in a list that left a pretrained
\* merge out
C4_Witness ==
    /\ AfterFilter
    /\ Len(applied_merges) < Len(all_merges)
    /\ \E i \in 1..Len(applied_merges) : ~IsAtomic(applied_merges[i][1])

AfterRefine == pc \in {"refined", "done", "evaluated"}

InitialTable == get_initial_word_counts(tokenize_characters(text))

\* C5: the refined table matches a replay of the final merge list. The table
\* refine_merges_word_counts returns equals the table got by applying the final
\* applied-merge list, in its final order, to the character-level table of the
\* same corpus.
C5_RefinedTableIsReplay ==
    AfterRefine =>
        CounterEq(word_counts,
                  apply_merges_word_counts(InitialTable, final_applied_merges).wc)

\* the number of tokens equal to token in the table, weighted
Occurrences(word_counts_, token) ==
    SumSeq([k \in 1..Len(word_counts_) |->
              Len(SelectSeq(deserialize_word(word_counts_[k].k), LAMBDA t : t = token))
              * word_counts_[k].c])

AcceptedSwap == pc = "refine" /\ Len(log_data') = Len(log_data) + 1

NewEntry == log_data'[Len(log_data')]

\* C6 as stated: after an accepted swap the total weighted token count is the
\* count before it minus the low_freq of the log entry plus the replacements of
\* the log entry.
C6_SizeFromLogEntry ==
    [][AcceptedSwap =>
          TokenCount(word_counts') =
              TokenCount(word_counts) - NewEntry.low_freq + NewEntry.replacements]_vars

\* C6 as amended: after an accepted swap the total weighted token count is the
\* count before it plus the number of tokens the undo of lowMerge expands (the
\* weighted occurrences of the token lowMerge makes, in the table before the
\* swap) minus the replacements of the log entry.
C6_SizeAccounting ==
    [][AcceptedSwap =>
          TokenCount(word_counts') =
              TokenCount(word_counts)
              + Occurrences(word_counts, NewEntry.low_merge[1] \o NewEntry.low_merge[2])
              - NewEntry.replacements]_vars

\* an accepted swap whose removed merge had been used and whose undo expanded a
\* token
C6_Witness ==
    /\ pc \in {"refine", "refined"}
    /\ log_data # <<>>
    /\ log_data[Len(log_data)].low_freq >= 1
    /\ log_data[Len(log_data)].low_merge[1] \in TokensOf(word_counts)
    /\ log_data[Len(log_data)].replacements >= 2

FoundHighEmpty == InRefineLoop /\ HighAfterDiscard = <<>>

\* the merges of s that are in the set keep, in the order of s
Restrict(s, keep) == SelectSeq(s, LAMBDA m : m \in keep)

LowMerges == {applied_sorted[i][1] : i \in 1..Len(applied_sorted)}

\* C7: hard early stop. An iteration that finds High empty after the pop and the
\* discard ends the loop at once; after the loop has ended the table, the
\* applied-merge list, the refinement log and the queues never change again, and
\* the merges left in Low are in the final list in their original order.
C7_HardStop ==
    [][/\ FoundHighEmpty =>
            /\ pc' = "refined"
            /\ applied_sorted' = Tail(applied_sorted)
            /\ UNCHANGED <<word_counts, final_applied_merges, log_data>>
       /\ AfterRefine =>
            UNCHANGED <<word_counts, final_applied_merges, log_data,
                        applied_sorted, remaining_sorted>>
       /\ pc' = "refined" =>
            Restrict(final_applied_merges', LowMerges')
                = Restrict(applied_merges', LowMerges')]_vars

\* the loop stopped early after an accepted swap, with a merge left in Low
C7_Witness ==
    /\ AfterRefine
    /\ applied_sorted # <<>>
    /\ log_data # <<>>

\* s without the element at index i
DropAt(s, i) == SubSeq(s, 1, i - 1) \o SubSeq(s, i + 1, Len(s))

\* s without the first occurrence of each element of xs, taken in turn
RECURSIVE WithoutFirsts(_, _)
WithoutFirsts(s, xs) ==
    IF xs = <<>> THEN s
    ELSE IF \E i \in 1..Len(s) : s[i] = xs[1]
         THEN WithoutFirsts(
                  DropAt(s, CHOOSE i \in 1..Len(s) :
                                s[i] = xs[1] /\ \A j \in 1..(i - 1) : s[j] # xs[1]),
                  Tail(xs))
         ELSE WithoutFirsts(s, Tail(xs))

\* C8: shape of the final applied-merge list. With k swaps accepted so far, the
\* list is the applied list without the k replaced low merges, followed by the k
\* accepted high merges in the order they were accepted; what was not replaced
\* keeps its order and the list is as long as the applied list.
C8_FinalListShape ==
    pc \in {"refine", "refined", "done", "evaluated"} =>
        LET k == Len(log_data)
            lows == [i \in 1..k |-> log_data[i].low_merge]
            highs == [i \in 1..k |-> log_data[i].high_merge]
        IN  /\ final_applied_merges = WithoutFirsts(applied_merges, lows) \o highs
            /\ Len(final_applied_merges) = Len(applied_merges)
            /\ IsSubseq(SubSeq(final_applied_merges, 1, Len(applied_merges) - k),
                        applied_merges)
            /\ \A i \in 1..k : log_data[i].number = i

\* two swaps accepted
C8_Witness ==
    /\ AfterRefine
    /\ Len(log_data) = 2
    /\ log_data[1].high_merge # log_data[2].high_merge

EmptyCorpus == tokenize_characters(text) = <<>>

\* C9: an empty corpus is a hard error. With a corpus of no characters, or of
\* whitespace only, the run ends in an EmptyCorpusError state: no output text and
\* no final merge file is written, it does not complete normally, and no ratio
\* is computed or fails by a division by zero.
C9_EmptyCorpusIsHardError ==
    EmptyCorpus =>
        /\ ~output_file.written
        /\ ~final_merge_file.written
        /\ pc \notin {"done", "evaluated"}
        /\ stats.status \notin {"ok", "ZeroDivisionError"}

\* C10: the logged corpus size counts the non-marker tokens. The corpus size of
\* the latest compression log entry is the weighted number of tokens of the table
\* after that step that are not the end-of-word marker: what the Flattener emits.
C10_LoggedSizeIsFlattened ==
    (pc = "apply" /\ compression_log # <<>>) =>
        compression_log[Len(compression_log)][4] = Len(flatten_tokens(word_counts, 1))

\* the table refine_merges_word_counts is set up on: the applied merges replayed
\* on the character-level table
SetupTable == apply_merges_word_counts(InitialTable, applied_merges).wc

\* C11: every accepted swap is a strict improvement by recorded frequency. In
\* every entry of the refinement log high_freq is strictly greater than low_freq,
\* where low_freq is the usage of the removed merge recorded when it was applied
\* and high_freq is the frequency of the inserted merge among the bigrams counted
\* at the setup of the refinement; and the High entry an iteration tries, the
\* first one left after the discard, has a frequency above the current low_freq.
C11_StrictImprovement ==
    /\ \A i \in 1..Len(log_data) :
          /\ log_data[i].high_freq > log_data[i].low_freq
          /\ \E j \in 1..Len(merge_frequencies) :
                merge_frequencies[j] = <<log_data[i].low_merge, log_data[i].low_freq>>
          /\ log_data[i].high_freq =
                CounterGet(get_bigram_frequencies_from_counts(SetupTable),
                           log_data[i].high_merge)
    /\ (InRefineLoop /\ HighAfterDiscard # <<>>) =>
          HighAfterDiscard[1][2] > Head(applied_sorted)[2]

\* an accepted swap whose removed merge had been used, logged with the
\* frequencies of both merges
C11_Witness ==
    /\ pc \in {"refine", "refined"}
    /\ log_data # <<>>
    /\ log_data[Len(log_data)].low_freq >= 1
    /\ log_data[Len(log_data)].high_freq >= 2

====
